---- MODULE Spec2Model ----
(* A model of NetworkInterface (src/src/network_interface.cc): the ARP cache  *)
(* arp_table_, the per-address timer arp_clock_, the deferred datagrams        *)
(* dgram_table_ and the outgoing frame queue outgoing_frames_, driven by the   *)
(* four entry points send_datagram, recv_frame, maybe_send and tick.           *)
EXTENDS Integers, Sequences, FiniteSets, TLC

VARIABLES arp_table,        \* arp_table_ : ip -> hardware address
          arp_clock,        \* arp_clock_ : ip -> signed ms counter
          dgram_table,      \* dgram_table_ : sequence of (next hop, datagram)
          outgoing_frames,  \* outgoing_frames_ : FIFO of frames
          last,             \* the last call: its name, inputs and return value
          sinceLearn,       \* history: ms ticked since ip was last learned
          sinceReq,         \* history: ms ticked since the last ARP request for ip
          calls             \* number of calls made so far

vars == <<arp_table, arp_clock, dgram_table, outgoing_frames, last, sinceLearn,
          sinceReq, calls>>

-----------------------------------------------------------------------------
(* Bounds of the model *)
MaxCalls == 5
MaxDeferred == 2
MaxOut == 2

(* Program constants *)
TTL == 30000
PendingLimit == -5001
PendingStart == -1
IntMax == 2147483647

(* Addresses *)
OwnMac == "own"
Broadcast == "bcast"
ZeroMac == "zero"
OwnIp == "ip1"
ZeroIp == "ip0"
Hops == {"ip2", "ip3"}
Dgrams == {"d1", "d2"}
NoDgram == "none"
TickVals == {4999, 5000, 25000, 30000}

-----------------------------------------------------------------------------
(* Wire formats: a payload is either a serialized datagram or a serialized    *)
(* ARP message; wf says whether the matching parse succeeds.                  *)
EmptyPayload ==
  [wf |-> FALSE, kind |-> "none", dgram |-> NoDgram, opcode |-> "none",
   sha |-> ZeroMac, spa |-> ZeroIp, tha |-> ZeroMac, tpa |-> ZeroIp]

SerializeDgram(d) == [EmptyPayload EXCEPT !.wf = TRUE, !.kind = "ipv4", !.dgram = d]

ARPMessage(op, sha, spa, tha, tpa) ==
  [opcode |-> op, sha |-> sha, spa |-> spa, tha |-> tha, tpa |-> tpa]

SerializeARP(m) ==
  [EmptyPayload EXCEPT !.wf = TRUE, !.kind = "arp", !.opcode = m.opcode,
                       !.sha = m.sha, !.spa = m.spa, !.tha = m.tha, !.tpa = m.tpa]

\* parse( dgram, payload ): succeeds on a well-formed serialized datagram
ParseDgram(p) == [ok |-> p.wf /\ p.kind = "ipv4", dgram |-> p.dgram]

\* parse( arp_msg, payload ): the fields read are left in arp_msg even when
\* the parse fails
ParseARP(p) ==
  [ok |-> p.wf /\ p.kind = "arp",
   msg |-> ARPMessage(p.opcode, p.sha, p.spa, p.tha, p.tpa)]

Frame(type, src, dst, payload) ==
  [type |-> type, src |-> src, dst |-> dst, payload |-> payload]

\* EthernetFrame frame; (default constructed)
DefaultFrame == Frame("none", ZeroMac, ZeroMac, EmptyPayload)

DataFrame(dst, d) == Frame("IPv4", OwnMac, dst, SerializeDgram(d))

\* variant: the request asks for the interface's own address
ArpRequestFrame_OwnTarget(ip) ==
  Frame("ARP", OwnMac, Broadcast,
        SerializeARP(ARPMessage("REQUEST", OwnMac, OwnIp, ZeroMac, OwnIp)))

ArpRequestFrame(ip) ==
  Frame("ARP", OwnMac, Broadcast,
        SerializeARP(ARPMessage("REQUEST", OwnMac, OwnIp, ZeroMac, ip)))

ArpReplyFrame(m) ==
  Frame("ARP", OwnMac, m.sha,
        SerializeARP(ARPMessage("REPLY", OwnMac, OwnIp, m.sha, m.spa)))

-----------------------------------------------------------------------------
(* Helpers on maps and sequences *)
Put(f, k, v) == [x \in DOMAIN f \cup {k} |-> IF x = k THEN v ELSE f[x]]
Erase(f, k) == [x \in DOMAIN f \ {k} |-> f[x]]
RemoveAt(s, i) == [j \in 1..(Len(s) - 1) |-> IF j < i THEN s[j] ELSE s[j + 1]]
Min(a, b) == IF a < b THEN a ELSE b

\* arp_clock_[k] += ms and arp_clock_[k] -= ms: the sum is formed in size_t
\* and stored back into the int, so it wraps modulo 2^32 into
\* -IntMax-1 .. IntMax (written so that no intermediate value leaves that
\* range); a is the int, ms is in 0 .. IntMax
PlusInt(a, ms) ==
  IF a > IntMax - ms THEN (a - IntMax - 1) + (ms - IntMax - 1) ELSE a + ms

MinusInt(a, ms) ==
  IF a < (ms - IntMax) - 1 THEN (a + IntMax + 1) + ((IntMax - ms) + 1) ELSE a - ms

State(t, c, d, o) ==
  [arp_table |-> t, arp_clock |-> c, dgram_table |-> d, outgoing_frames |-> o]

Cur == State(arp_table, arp_clock, dgram_table, outgoing_frames)

-----------------------------------------------------------------------------
\* variant: the Pending branch lacks its return and pushes the unfilled frame
send_datagram_NoReturn(S, dgram, next_ip) ==
  IF next_ip \in DOMAIN S.arp_table
  THEN [S EXCEPT !.outgoing_frames = Append(@, DataFrame(S.arp_table[next_ip], dgram))]
  ELSE IF next_ip \notin DOMAIN S.arp_clock
  THEN [S EXCEPT !.outgoing_frames = Append(@, ArpRequestFrame(next_ip)),
                 !.dgram_table = Append(@, <<next_ip, dgram>>),
                 !.arp_clock = Put(@, next_ip, PendingStart)]
  ELSE IF S.arp_clock[next_ip] < 0
  THEN [S EXCEPT !.dgram_table = Append(@, <<next_ip, dgram>>),
                 !.outgoing_frames = Append(@, DefaultFrame)]
  ELSE [S EXCEPT !.outgoing_frames = Append(@, DefaultFrame)]

\* variant: sending to a Resolved address restarts its age
send_datagram_Refresh(S, dgram, next_ip) ==
  IF next_ip \in DOMAIN S.arp_table
  THEN [S EXCEPT !.outgoing_frames = Append(@, DataFrame(S.arp_table[next_ip], dgram)),
                 !.arp_clock = Put(@, next_ip, 0)]
  ELSE IF next_ip \notin DOMAIN S.arp_clock
  THEN [S EXCEPT !.outgoing_frames = Append(@, ArpRequestFrame(next_ip)),
                 !.dgram_table = Append(@, <<next_ip, dgram>>),
                 !.arp_clock = Put(@, next_ip, PendingStart)]
  ELSE IF S.arp_clock[next_ip] < 0
  THEN [S EXCEPT !.dgram_table = Append(@, <<next_ip, dgram>>)]
  ELSE [S EXCEPT !.outgoing_frames = Append(@, DefaultFrame)]

(* void NetworkInterface::send_datagram( dgram, next_hop ) *)
send_datagram(S, dgram, next_ip) ==
  IF next_ip \in DOMAIN S.arp_table
  THEN [S EXCEPT !.outgoing_frames = Append(@, DataFrame(S.arp_table[next_ip], dgram))]
  ELSE IF next_ip \notin DOMAIN S.arp_clock
  THEN [S EXCEPT !.outgoing_frames = Append(@, ArpRequestFrame(next_ip)),
                 !.dgram_table = Append(@, <<next_ip, dgram>>),
                 !.arp_clock = Put(@, next_ip, PendingStart)]
  ELSE IF S.arp_clock[next_ip] < 0
  THEN [S EXCEPT !.dgram_table = Append(@, <<next_ip, dgram>>)]
  ELSE [S EXCEPT !.outgoing_frames = Append(@, DefaultFrame)]

(* void NetworkInterface::retrieve_datagram() *)
Ready(S, i) ==
  /\ S.dgram_table[i][1] \in DOMAIN S.arp_clock
  /\ S.arp_clock[S.dgram_table[i][1]] >= 0

\* variant: the newest ready entry is taken
retrieve_datagram_Newest(S) ==
  LET ready == {i \in 1..Len(S.dgram_table) : Ready(S, i)}
  IN IF ready = {} THEN S
     ELSE LET idx == CHOOSE i \in ready : \A j \in ready : i >= j
              S1 == send_datagram(S, S.dgram_table[idx][2], S.dgram_table[idx][1])
          IN [S1 EXCEPT !.dgram_table = RemoveAt(@, idx)]

retrieve_datagram(S) ==
  LET ready == {i \in 1..Len(S.dgram_table) : Ready(S, i)}
  IN IF ready = {} THEN S
     ELSE LET idx == CHOOSE i \in ready : \A j \in ready : i <= j
              S1 == send_datagram(S, S.dgram_table[idx][2], S.dgram_table[idx][1])
          IN [S1 EXCEPT !.dgram_table = RemoveAt(@, idx)]


(* optional<InternetDatagram> NetworkInterface::recv_frame( frame ) *)
\* variant: the cache is updated but the timer is not
Learn_TableOnly(S, m) ==
  [S EXCEPT !.arp_table = Put(@, m.spa, m.sha),
            !.arp_clock = IF m.spa \in DOMAIN @ THEN @ ELSE Put(@, m.spa, 0)]

Learn(S, m) ==
  [S EXCEPT !.arp_table = Put(@, m.spa, m.sha), !.arp_clock = Put(@, m.spa, 0)]

\* variant: every request is answered, whatever its target
Reply_AnyTarget(S, m) ==
  IF m.opcode = "REQUEST"
  THEN [S EXCEPT !.outgoing_frames = Append(@, ArpReplyFrame(m))]
  ELSE S

Reply(S, m) ==
  IF m.tpa = OwnIp /\ m.opcode = "REQUEST"
  THEN [S EXCEPT !.outgoing_frames = Append(@, ArpReplyFrame(m))]
  ELSE S

recv_arp(S, frame) ==
  IF frame.type = "ARP"
  THEN LET p == ParseARP(frame.payload)
           S1 == IF p.ok THEN Learn(S, p.msg) ELSE S
       IN Reply(S1, p.msg)
  ELSE S

\* variant: the destination address is not compared
Delivers_AnyDst(frame) ==
  /\ frame.type = "IPv4"
  /\ ParseDgram(frame.payload).ok

Delivers(frame) ==
  /\ frame.type = "IPv4"
  /\ frame.dst = OwnMac
  /\ ParseDgram(frame.payload).ok

recv_frame(S, frame) ==
  IF Delivers(frame)
  THEN [state |-> S, ret |-> ParseDgram(frame.payload).dgram]
  ELSE [state |-> retrieve_datagram(recv_arp(S, frame)), ret |-> NoDgram]

(* void NetworkInterface::tick( ms_since_last_tick ): the loop over          *)
(* arp_clock_, visiting its keys in the order ord from position i on          *)
\* variant: a countdown is dropped one millisecond early
RECURSIVE tick_loop_EarlyRelease(_, _, _, _)
tick_loop_EarlyRelease(S, ord, i, ms) ==
  IF i > Len(ord) THEN S
  ELSE LET k == ord[i]
       IN IF S.arp_clock[k] >= 0
          THEN LET v == PlusInt(S.arp_clock[k], ms)
               IN IF v >= TTL
                  THEN [S EXCEPT !.arp_table = Erase(@, k), !.arp_clock = Erase(@, k)]
                  ELSE tick_loop_EarlyRelease([S EXCEPT !.arp_clock[k] = v], ord, i + 1, ms)
          ELSE LET v == MinusInt(S.arp_clock[k], ms)
               IN IF v <= PendingLimit + 1
                  THEN [S EXCEPT !.arp_clock = Erase(@, k)]
                  ELSE [S EXCEPT !.arp_clock[k] = v]

\* variant: the loop goes on after a countdown that stays
RECURSIVE tick_loop_NoBreak(_, _, _, _)
tick_loop_NoBreak(S, ord, i, ms) ==
  IF i > Len(ord) THEN S
  ELSE LET k == ord[i]
       IN IF S.arp_clock[k] >= 0
          THEN LET v == PlusInt(S.arp_clock[k], ms)
               IN IF v >= TTL
                  THEN [S EXCEPT !.arp_table = Erase(@, k), !.arp_clock = Erase(@, k)]
                  ELSE tick_loop_NoBreak([S EXCEPT !.arp_clock[k] = v], ord, i + 1, ms)
          ELSE LET v == MinusInt(S.arp_clock[k], ms)
               IN IF v <= PendingLimit
                  THEN [S EXCEPT !.arp_clock = Erase(@, k)]
                  ELSE tick_loop_NoBreak([S EXCEPT !.arp_clock[k] = v], ord, i + 1, ms)

RECURSIVE tick_loop(_, _, _, _)
tick_loop(S, ord, i, ms) ==
  IF i > Len(ord) THEN S
  ELSE LET k == ord[i]
       IN IF S.arp_clock[k] >= 0
          THEN LET v == PlusInt(S.arp_clock[k], ms)
               IN IF v >= TTL
                  THEN [S EXCEPT !.arp_table = Erase(@, k), !.arp_clock = Erase(@, k)]
                  ELSE tick_loop([S EXCEPT !.arp_clock[k] = v], ord, i + 1, ms)
          ELSE LET v == MinusInt(S.arp_clock[k], ms)
               IN IF v <= PendingLimit
                  THEN [S EXCEPT !.arp_clock = Erase(@, k)]
                  ELSE [S EXCEPT !.arp_clock[k] = v]

tick(S, ord, ms) ==
  IF DOMAIN S.arp_clock = {} THEN S
  ELSE retrieve_datagram(tick_loop(S, ord, 1, ms))

\* the orders in which a range-for can visit the keys of arp_clock_: the
\* container's declaration is not part of network_interface.cc, so every order
\* (ascending keys for a map, any for a hash map) is allowed
Orders(keys) ==
  {o \in [1..Cardinality(keys) -> keys] : \A i, j \in DOMAIN o : i # j => o[i] # o[j]}

-----------------------------------------------------------------------------
(* Resolution state of an address (spec 4.1) *)
Resolved(S, ip) == ip \in DOMAIN S.arp_table
Pending(S, ip) ==
  /\ ip \notin DOMAIN S.arp_table
  /\ ip \in DOMAIN S.arp_clock
  /\ S.arp_clock[ip] < 0
Unknown(S, ip) == ip \notin DOMAIN S.arp_table /\ ip \notin DOMAIN S.arp_clock

Class(S, ip) ==
  IF Resolved(S, ip) THEN "Resolved"
  ELSE IF Pending(S, ip) THEN "Pending"
  ELSE IF Unknown(S, ip) THEN "Unknown"
  ELSE "Orphan"

-----------------------------------------------------------------------------
(* The calls the environment makes *)
NoCall ==
  [op |-> "init", hop |-> ZeroIp, dgram |-> NoDgram, frame |-> DefaultFrame,
   ms |-> 0, cls |-> "none", ret |-> NoDgram, polled |-> FALSE]

Macs == {"mA", "mB"}

\* frames the link may deliver: IPv4 frames to this interface, to broadcast
\* and to another host, and one whose payload does not parse
Ipv4Frames ==
  {Frame("IPv4", "mA", dst, SerializeDgram("d1")) : dst \in {OwnMac, Broadcast, "mB"}}
  \cup {Frame("IPv4", "mA", OwnMac, [SerializeDgram("d2") EXCEPT !.wf = FALSE])}

ArpFrame(dst, wf, op, sha, spa, tpa) ==
  Frame("ARP", sha, dst,
        [SerializeARP(ARPMessage(op, sha, spa, ZeroMac, tpa)) EXCEPT !.wf = wf])

\* ARP requests and replies, for this interface and for others, two hardware
\* addresses for ip2, and two frames whose payload does not parse
ArpFrames ==
  { ArpFrame(Broadcast, TRUE, "REQUEST", "mA", "ip2", OwnIp),
    ArpFrame(Broadcast, TRUE, "REQUEST", "mA", "ip2", "ip3"),
    ArpFrame(OwnMac, TRUE, "REPLY", "mA", "ip2", OwnIp),
    ArpFrame(OwnMac, TRUE, "REPLY", "mB", "ip2", OwnIp),
    ArpFrame(OwnMac, TRUE, "REPLY", "mA", "ip3", OwnIp),
    ArpFrame(Broadcast, TRUE, "REQUEST", "mB", "ip3", OwnIp),
    ArpFrame("mB", TRUE, "REPLY", "mA", "ip3", "ip2"),
    ArpFrame(Broadcast, FALSE, "REQUEST", "mA", "ip2", OwnIp),
    ArpFrame(OwnMac, FALSE, "REPLY", "mA", "ip3", OwnIp) }

RecvFrames == Ipv4Frames \cup ArpFrames

SetSince(f, ip) == Put(f, ip, 0)
Advance(f, ms, cap) == [ip \in DOMAIN f |-> IF ms >= cap THEN cap ELSE Min(f[ip] + ms, cap)]

Install(S) ==
  /\ arp_table' = S.arp_table
  /\ arp_clock' = S.arp_clock
  /\ dgram_table' = S.dgram_table
  /\ outgoing_frames' = S.outgoing_frames

Init ==
  /\ arp_table = << >>
  /\ arp_clock = << >>
  /\ dgram_table = << >>
  /\ outgoing_frames = << >>
  /\ last = NoCall
  /\ sinceLearn = << >>
  /\ sinceReq = << >>
  /\ calls = 0

Call ==
  /\ calls < MaxCalls
  /\ calls' = calls + 1

\* the link driver polls before the outgoing queue grows past MaxOut
Room == Len(outgoing_frames) < MaxOut

DoSend(d, ip) ==
  /\ Room
  /\ Len(dgram_table) < MaxDeferred
  /\ Install(send_datagram(Cur, d, ip))
  /\ last' = [NoCall EXCEPT !.op = "send", !.hop = ip, !.dgram = d, !.cls = Class(Cur, ip)]
  /\ sinceReq' = IF Unknown(Cur, ip) THEN SetSince(sinceReq, ip) ELSE sinceReq
  /\ sinceLearn' = IF ip \in DOMAIN sinceLearn /\ sinceLearn[ip] >= TTL
                   THEN Erase(sinceLearn, ip) ELSE sinceLearn

Send(d, ip) == Call /\ DoSend(d, ip)

DoRecv(f) ==
  /\ Room
  /\ LET r == recv_frame(Cur, f)
         p == ParseARP(f.payload)
         learned == f.type = "ARP" /\ p.ok
     IN /\ Install(r.state)
        /\ last' = [NoCall EXCEPT !.op = "recv", !.frame = f, !.ret = r.ret,
                                  !.hop = IF learned THEN p.msg.spa ELSE ZeroIp,
                                  !.cls = IF learned THEN Class(Cur, p.msg.spa) ELSE "none"]
        /\ sinceLearn' = IF learned THEN SetSince(sinceLearn, p.msg.spa) ELSE sinceLearn
        /\ sinceReq' = IF learned THEN Erase(sinceReq, p.msg.spa) ELSE sinceReq

Recv(f) == Call /\ DoRecv(f)

\* a poll that takes the newest frame
DoMaybeSend_Newest ==
  /\ last' = IF outgoing_frames = << >>
             THEN [NoCall EXCEPT !.op = "maybe_send"]
             ELSE [NoCall EXCEPT !.op = "maybe_send", !.polled = TRUE,
                                 !.frame = outgoing_frames[Len(outgoing_frames)]]
  /\ outgoing_frames' = IF outgoing_frames = << >> THEN << >>
                        ELSE SubSeq(outgoing_frames, 1, Len(outgoing_frames) - 1)
  /\ UNCHANGED <<arp_table, arp_clock, dgram_table, sinceLearn, sinceReq>>

DoMaybeSend ==
  /\ last' = IF outgoing_frames = << >>
             THEN [NoCall EXCEPT !.op = "maybe_send"]
             ELSE [NoCall EXCEPT !.op = "maybe_send", !.polled = TRUE,
                                 !.frame = Head(outgoing_frames)]
  /\ outgoing_frames' = IF outgoing_frames = << >> THEN << >> ELSE Tail(outgoing_frames)
  /\ UNCHANGED <<arp_table, arp_clock, dgram_table, sinceLearn, sinceReq>>

MaybeSend == Call /\ DoMaybeSend

DoTick(ms) ==
  /\ Room
  /\ \E ord \in Orders(DOMAIN arp_clock) : Install(tick(Cur, ord, ms))
  /\ last' = [NoCall EXCEPT !.op = "tick", !.ms = ms]
  /\ sinceLearn' = Advance(sinceLearn, ms, TTL)
  /\ sinceReq' = Advance(sinceReq, ms, -PendingLimit)

Tick(ms) == Call /\ DoTick(ms)

Next ==
  \/ \E d \in Dgrams, ip \in Hops : Send(d, ip)
  \/ \E f \in RecvFrames : Recv(f)
  \/ MaybeSend
  \/ \E ms \in TickVals : Tick(ms)

Spec == Init /\ [][Next]_vars

\* The same calls, and ticks long enough to wrap the int timer
WideTicks == {IntMax}

WideNext ==
  \/ Next
  \/ \E ms \in WideTicks : Tick(ms)

WideSpec == Init /\ [][WideNext]_vars

-----------------------------------------------------------------------------
(* The same calls without a bound on their number, for one next hop, with   *)
(* the driver calling tick, receive and maybe_send again and again.          *)
InQueue(ip, d) == \E i \in DOMAIN dgram_table : dgram_table[i] = <<ip, d>>

LiveHop == "ip2"
LiveTicks == {5000, 30000}
LiveFrames ==
  { ArpFrame(OwnMac, TRUE, "REPLY", "mA", LiveHop, OwnIp),
    ArpFrame(OwnMac, FALSE, "REPLY", "mA", LiveHop, OwnIp),
    Frame("IPv4", "mA", Broadcast, SerializeDgram("d1")) }

\* the network layer hands each datagram over while no copy of it is deferred
LiveSend == \E d \in Dgrams : ~InQueue(LiveHop, d) /\ DoSend(d, LiveHop) /\ UNCHANGED calls
LiveRecv == \E f \in LiveFrames : DoRecv(f) /\ UNCHANGED calls
LivePoll == DoMaybeSend /\ UNCHANGED calls
LiveTick == \E ms \in LiveTicks : DoTick(ms) /\ UNCHANGED calls

LiveNext == LiveSend \/ LiveRecv \/ LivePoll \/ LiveTick

LiveSpec ==
  /\ Init /\ [][LiveNext]_vars
  /\ WF_vars(LiveTick) /\ WF_vars(LiveRecv) /\ WF_vars(LivePoll)

-----------------------------------------------------------------------------
(* Steps and frames, as the properties below name them *)
SendStep(d, ip) ==
  calls' = calls + 1 /\ last'.op = "send" /\ last'.dgram = d /\ last'.hop = ip
RecvStep(f) == calls' = calls + 1 /\ last'.op = "recv" /\ last'.frame = f
TickStep(ms) == calls' = calls + 1 /\ last'.op = "tick" /\ last'.ms = ms

IsArpRequest(f, ip) ==
  /\ f.type = "ARP" /\ f.src = OwnMac /\ f.dst = "bcast"
  /\ f.payload.wf /\ f.payload.kind = "arp"
  /\ f.payload.opcode = "REQUEST"
  /\ f.payload.sha = OwnMac /\ f.payload.spa = OwnIp
  /\ f.payload.tha = "zero" /\ f.payload.tpa = ip

IsDataFrame(f, mac, d) ==
  /\ f.type = "IPv4" /\ f.src = OwnMac /\ f.dst = mac
  /\ f.payload.wf /\ f.payload.kind = "ipv4" /\ f.payload.dgram = d

IsArpReply(f, mac, ip) ==
  /\ f.type = "ARP" /\ f.src = OwnMac /\ f.dst = mac
  /\ f.payload.wf /\ f.payload.kind = "arp"
  /\ f.payload.opcode = "REPLY"
  /\ f.payload.sha = OwnMac /\ f.payload.spa = OwnIp
  /\ f.payload.tha = mac /\ f.payload.tpa = ip

Grew(q, q2, n) == Len(q2) = Len(q) + n /\ SubSeq(q2, 1, Len(q)) = q

\* C1: a send to a Pending address enqueues no frame and appends exactly one
\* (address, datagram) entry to the deferred queue; a send to an Unknown
\* address followed at once by a second send to it leaves exactly the one ARP
\* request of the first send and the two deferred entries, in order.
C1_PendingSendOnlyDefers ==
  [][\A d \in Dgrams, ip \in Hops :
       SendStep(d, ip) /\ Pending(Cur, ip) =>
         /\ outgoing_frames' = outgoing_frames
         /\ dgram_table' = Append(dgram_table, <<ip, d>>)
         /\ arp_clock' = arp_clock /\ arp_table' = arp_table
         /\ (last.op = "send" /\ last.hop = ip /\ last.cls = "Unknown" =>
               /\ IsArpRequest(outgoing_frames'[Len(outgoing_frames')], ip)
               /\ dgram_table'[Len(dgram_table') - 1] = <<ip, last.dgram>>)]_vars

C1_Witness ==
  /\ last.op = "send" /\ last.cls = "Pending"
  /\ Len(dgram_table) = 2
  /\ dgram_table[1][1] = last.hop /\ dgram_table[2] = <<last.hop, last.dgram>>
  /\ Len(outgoing_frames) = 1 /\ IsArpRequest(outgoing_frames[1], last.hop)

\* C2: a send to an Unknown address makes it Pending with timer -1, puts
\* exactly one broadcast ARP request for it (sender = own addresses, target
\* hardware address zero) at the tail of the outgoing queue and exactly one
\* (address, datagram) entry at the tail of the deferred queue.
C2_UnknownSendRequests ==
  [][\A d \in Dgrams, ip \in Hops :
       SendStep(d, ip) /\ Unknown(Cur, ip) =>
         /\ Pending(Cur', ip) /\ arp_clock'[ip] = -1
         /\ \A x \in Hops \ {ip} : Class(Cur', x) = Class(Cur, x)
         /\ Grew(outgoing_frames, outgoing_frames', 1)
         /\ IsArpRequest(outgoing_frames'[Len(outgoing_frames')], ip)
         /\ dgram_table' = Append(dgram_table, <<ip, d>>)]_vars

C2_Witness ==
  /\ last.op = "send" /\ last.cls = "Unknown"
  /\ Pending(Cur, last.hop)
  /\ Len(outgoing_frames) = 2 /\ IsArpRequest(outgoing_frames[2], last.hop)
  /\ Len(dgram_table) = 2 /\ dgram_table[2] = <<last.hop, last.dgram>>

\* C3: a send to a Resolved address puts exactly one IPv4 frame at the tail of
\* the outgoing queue (source own address, destination the cached hardware
\* address, payload the datagram) and leaves the cache, every timer and the
\* deferred queue as they were.
C3_ResolvedSendFrames ==
  [][\A d \in Dgrams, ip \in Hops :
       SendStep(d, ip) /\ Resolved(Cur, ip) =>
         /\ Grew(outgoing_frames, outgoing_frames', 1)
         /\ IsDataFrame(outgoing_frames'[Len(outgoing_frames')], arp_table[ip], d)
         /\ arp_table' = arp_table
         /\ arp_clock' = arp_clock
         /\ dgram_table' = dgram_table]_vars

C3_Witness ==
  /\ last.op = "send" /\ last.cls = "Resolved"
  /\ last.hop \in DOMAIN arp_clock /\ arp_clock[last.hop] = 25000
  /\ Len(outgoing_frames) = 1
  /\ IsDataFrame(outgoing_frames[1], "mB", last.dgram)

\* C4: receive returns a datagram exactly when the frame is of type IPv4, is
\* addressed to the interface's own hardware address and its payload parses,
\* and then it returns the parsed datagram.
C4_DeliversIffOwnIpv4 ==
  last.op = "recv" =>
    /\ last.ret # NoDgram <=>
         (/\ last.frame.type = "IPv4"
          /\ last.frame.dst = "own"
          /\ last.frame.payload.wf /\ last.frame.payload.kind = "ipv4")
    /\ last.ret # NoDgram => last.ret = last.frame.payload.dgram

C4_Witness ==
  /\ last.op = "recv" /\ last.ret = "d1"
  /\ last.frame.type = "IPv4" /\ last.frame.dst = OwnMac

\* C5: every receive flushes the deferred queue before it returns, also when
\* it delivers a datagram: a deferred entry with a Resolved next hop, present
\* when a well-formed IPv4 frame for this interface arrives, has left the
\* deferred queue (the oldest such) and its data frame is on the outgoing queue.
FirstResolved(q) ==
  CHOOSE i \in DOMAIN q :
    /\ Resolved(Cur, q[i][1])
    /\ \A j \in DOMAIN q : Resolved(Cur, q[j][1]) => i <= j

C5_RecvAlwaysFlushes ==
  [][\A f \in RecvFrames :
       (/\ RecvStep(f)
        /\ f.type = "IPv4" /\ f.dst = OwnMac /\ ParseDgram(f.payload).ok
        /\ \E i \in DOMAIN dgram_table : Resolved(Cur, dgram_table[i][1]))
       => LET idx == FirstResolved(dgram_table)
              e == dgram_table[idx]
          IN /\ dgram_table' = RemoveAt(dgram_table, idx)
             /\ Grew(outgoing_frames, outgoing_frames', 1)
             /\ IsDataFrame(outgoing_frames'[Len(outgoing_frames')],
                            arp_table[e[1]], e[2])]_vars

\* C6: a well-formed ARP REQUEST for the interface's own protocol address gets
\* exactly one reply frame, enqueued right behind what was queued: unicast to
\* the requester, opcode REPLY, sender = own addresses, target = the
\* requester's addresses; a well-formed REPLY, or a REQUEST for another
\* address, adds no ARP frame to the outgoing queue.
ArpCount(q) == Cardinality({i \in DOMAIN q : q[i].type = "ARP"})

C6_ReplyToOwnRequests ==
  [][\A f \in RecvFrames :
       RecvStep(f) /\ f.type = "ARP" /\ ParseARP(f.payload).ok =>
         LET n == Len(outgoing_frames)
         IN /\ Len(outgoing_frames') >= n
            /\ SubSeq(outgoing_frames', 1, n) = outgoing_frames
            /\ IF f.payload.opcode = "REQUEST" /\ f.payload.tpa = OwnIp
               THEN /\ Len(outgoing_frames') > n
                    /\ IsArpReply(outgoing_frames'[n + 1], f.payload.sha, f.payload.spa)
                    /\ ArpCount(outgoing_frames') = ArpCount(outgoing_frames) + 1
               ELSE ArpCount(outgoing_frames') = ArpCount(outgoing_frames)]_vars

C6_Witness ==
  /\ last.op = "recv" /\ last.frame.type = "ARP"
  /\ last.frame.payload.wf /\ last.frame.payload.opcode = "REQUEST"
  /\ last.frame.payload.tpa = OwnIp
  /\ Len(outgoing_frames) = 2
  /\ outgoing_frames[1] = outgoing_frames[2]
  /\ IsArpReply(outgoing_frames[2], last.frame.payload.sha, last.frame.payload.spa)

\* C7: after receive has taken a well-formed ARP message, REQUEST or REPLY,
\* whatever its target and the frame's destination, the sender's protocol
\* address is Resolved, cached with the sender's hardware address, with a
\* timer of zero.
C7_PassiveLearning ==
  (/\ last.op = "recv" /\ last.frame.type = "ARP"
   /\ last.frame.payload.wf /\ last.frame.payload.kind = "arp")
  => /\ last.frame.payload.spa \in DOMAIN arp_table
     /\ arp_table[last.frame.payload.spa] = last.frame.payload.sha
     /\ last.frame.payload.spa \in DOMAIN arp_clock
     /\ arp_clock[last.frame.payload.spa] = 0

\* a cached "mA", used for a data frame, was overwritten by a later "mB"
C7_Witness ==
  /\ last.op = "recv" /\ last.cls = "Resolved"
  /\ last.frame.type = "ARP" /\ last.frame.payload.wf
  /\ DOMAIN arp_table = {last.hop}
  /\ arp_table[last.hop] = "mB" /\ arp_clock[last.hop] = 0
  /\ \E i \in DOMAIN outgoing_frames : outgoing_frames[i].type = "IPv4"
                                      /\ outgoing_frames[i].dst = "mA"

\* C8: once the ticks since an address was learned sum to 30000 ms or more,
\* with no ARP message from it in between, the next send to it enqueues a new
\* ARP request for it and no data frame.
C8_StaleNotReused ==
  [][\A d \in Dgrams, ip \in Hops :
       (SendStep(d, ip) /\ ip \in DOMAIN sinceLearn /\ sinceLearn[ip] >= 30000)
       => /\ Grew(outgoing_frames, outgoing_frames', 1)
          /\ IsArpRequest(outgoing_frames'[Len(outgoing_frames')], ip)]_vars

\* C9: once the ticks since the ARP request for an address sum to more than
\* 5000 ms, with no ARP message from it in between, the next send to it
\* enqueues a fresh ARP request for it.
C9_PendingReleased ==
  [][\A d \in Dgrams, ip \in Hops :
       (SendStep(d, ip) /\ ip \in DOMAIN sinceReq /\ sinceReq[ip] > 5000)
       => /\ Grew(outgoing_frames, outgoing_frames', 1)
          /\ IsArpRequest(outgoing_frames'[Len(outgoing_frames')], ip)]_vars

\* C10: one tick(ms) moves every timer by exactly ms (an age up, a countdown
\* down) or removes it; none keeps its old value.
C10_TickAgesAll ==
  [][\A ms \in TickVals :
       TickStep(ms) =>
         \A ip \in DOMAIN arp_clock :
           \/ ip \notin DOMAIN arp_clock'
           \/ arp_clock'[ip] = IF arp_clock[ip] >= 0 THEN arp_clock[ip] + ms
                               ELSE arp_clock[ip] - ms]_vars

\* C11: a datagram deferred for an address that then answers, while still
\* Pending, with a well-formed ARP message, eventually leaves the deferred
\* queue when tick, receive and maybe_send keep being called.
C11_DeferredEventuallyEmitted ==
  \A d \in Dgrams :
    (/\ last.op = "recv" /\ last.hop = LiveHop /\ last.cls = "Pending"
     /\ InQueue(LiveHop, d))
    ~> ~InQueue(LiveHop, d)

\* C12: maybe_send returns nothing exactly when the outgoing queue is empty;
\* otherwise it returns the oldest frame as it was enqueued and removes only
\* that one; it leaves cache, timers and deferred queue alone; every other call
\* only appends behind what is queued, so frames come out in enqueuing order.
PollStep == calls' = calls + 1 /\ last'.op = "maybe_send"

C12_MaybeSendFifo ==
  [][/\ PollStep =>
          /\ last'.polled <=> outgoing_frames # << >>
          /\ outgoing_frames # << >> =>
               /\ last'.frame = Head(outgoing_frames)
               /\ outgoing_frames' = Tail(outgoing_frames)
          /\ outgoing_frames = << >> => outgoing_frames' = << >>
          /\ arp_table' = arp_table /\ arp_clock' = arp_clock
          /\ dgram_table' = dgram_table
     /\ ~PollStep =>
          /\ Len(outgoing_frames') >= Len(outgoing_frames)
          /\ SubSeq(outgoing_frames', 1, Len(outgoing_frames)) = outgoing_frames]_vars

\* of an ARP request and the data frame queued behind it, the request came out
C12_Witness ==
  /\ last.op = "maybe_send" /\ last.polled
  /\ IsArpRequest(last.frame, "ip3")
  /\ Len(outgoing_frames) = 1
  /\ \E d \in Dgrams : IsDataFrame(outgoing_frames[1], "mA", d)

\* C13: receive of an ARP-typed frame whose payload does not parse learns no
\* address, changes no timer, enqueues no ARP frame and returns nothing.
C13_MalformedDropped ==
  [][\A f \in RecvFrames :
       RecvStep(f) /\ f.type = "ARP" /\ ~ParseARP(f.payload).ok =>
         /\ arp_table' = arp_table
         /\ arp_clock' = arp_clock
         /\ ArpCount(outgoing_frames') = ArpCount(outgoing_frames)
         /\ last'.ret = NoDgram]_vars

\* C14: when an ARP request for an address is enqueued and an earlier request
\* for it was enqueued with no ARP message from that address since, the ticks
\* between the two sum to 5000 ms or more.
C14_RequestInterval ==
  [][\A d \in Dgrams, ip \in Hops :
       (/\ SendStep(d, ip)
        /\ Len(outgoing_frames') = Len(outgoing_frames) + 1
        /\ IsArpRequest(outgoing_frames'[Len(outgoing_frames')], ip)
        /\ ip \in DOMAIN sinceReq)
       => sinceReq[ip] >= 5000]_vars

\* request, tick(5000), request: two entries deferred for the same address
C14_Witness ==
  /\ calls = 3 /\ last.op = "send" /\ last.cls = "Unknown"
  /\ Len(dgram_table) = 2
  /\ dgram_table[1][1] = last.hop /\ dgram_table[2][1] = last.hop
  /\ Len(outgoing_frames) = 2
  /\ IsArpRequest(outgoing_frames[1], last.hop)
  /\ IsArpRequest(outgoing_frames[2], last.hop)

\* C15: a tick, or a receive that delivers no datagram, takes out of the
\* deferred queue exactly the oldest entry whose next hop is Resolved once the
\* call has aged or learned, puts one data frame for it, addressed to the
\* cached hardware address, at the tail of the outgoing queue and leaves the
\* other entries as they were; with no such entry the deferred queue and the
\* data frames queued stay as they were.
DataCount(q) == Cardinality({i \in DOMAIN q : q[i].type = "IPv4"})

FlushStep ==
  /\ calls' = calls + 1
  /\ last'.op = "tick" \/ (last'.op = "recv" /\ last'.ret = NoDgram)

C15_FlushOneOldestFirst ==
  [][FlushStep =>
       LET ready == {i \in DOMAIN dgram_table : dgram_table[i][1] \in DOMAIN arp_table'}
       IN IF ready = {}
          THEN /\ dgram_table' = dgram_table
               /\ DataCount(outgoing_frames') = DataCount(outgoing_frames)
               /\ Len(outgoing_frames') - Len(outgoing_frames) \in {0, 1}
          ELSE LET idx == CHOOSE i \in ready : \A j \in ready : i <= j
                   e == dgram_table[idx]
               IN /\ dgram_table' = RemoveAt(dgram_table, idx)
                  /\ DataCount(outgoing_frames') = DataCount(outgoing_frames) + 1
                  /\ IsDataFrame(outgoing_frames'[Len(outgoing_frames')],
                                 arp_table'[e[1]], e[2])]_vars

\* C16: an address has a cache entry exactly when it has a non-negative timer.
C16_Lockstep ==
  \A ip \in DOMAIN arp_table \cup DOMAIN arp_clock :
    ip \in DOMAIN arp_table <=> (ip \in DOMAIN arp_clock /\ arp_clock[ip] >= 0)

\* C17: the timer of a cached address is within 0 .. 29999 and the timer of an
\* address without cache entry is within -5000 .. -1.
C17_TimerRanges ==
  \A ip \in DOMAIN arp_clock :
    IF ip \in DOMAIN arp_table
    THEN 0 <= arp_clock[ip] /\ arp_clock[ip] <= TTL - 1
    ELSE PendingLimit + 1 <= arp_clock[ip] /\ arp_clock[ip] <= -1

\* C18: one tick changes or removes the timer of at most one address and
\* leaves every other address's timer and cache entry as they were.
Touched == {ip \in DOMAIN arp_clock :
              ip \notin DOMAIN arp_clock' \/ arp_clock'[ip] # arp_clock[ip]}

Dropped == {ip \in DOMAIN arp_clock : ip \notin DOMAIN arp_clock'}

C18_OneRecordPerTick ==
  [][\A ms \in TickVals \cup WideTicks :
       TickStep(ms) =>
         /\ Cardinality(Touched) <= 1
         /\ \A ip \in DOMAIN arp_table \ Touched :
              ip \in DOMAIN arp_table' /\ arp_table'[ip] = arp_table[ip]]_vars

\* C18, amended: one tick removes the timer of at most one address and moves
\* the countdown of at most one address with a negative timer, and not both;
\* any other timer it changes was non-negative and is moved up by ms (as the
\* int holds it); it adds no timer and no cache entry, and it leaves the cache
\* entry of every address whose timer it does not remove as it was.
C18_TickStopsAtFirstBreak ==
  [][\A ms \in TickVals \cup WideTicks :
       TickStep(ms) =>
         /\ Cardinality({ip \in Touched : ip \in Dropped \/ arp_clock[ip] < 0}) <= 1
         /\ \A ip \in Touched \ Dropped :
              arp_clock[ip] >= 0 => arp_clock'[ip] = PlusInt(arp_clock[ip], ms)
         /\ DOMAIN arp_clock' \subseteq DOMAIN arp_clock
         /\ DOMAIN arp_table' \subseteq DOMAIN arp_table
         /\ \A ip \in DOMAIN arp_table \ Dropped :
              ip \in DOMAIN arp_table' /\ arp_table'[ip] = arp_table[ip]]_vars

\* two Resolved addresses, both aged by the last tick
C18_Witness ==
  /\ last.op = "tick" /\ last.ms = 25000
  /\ DOMAIN arp_table = Hops
  /\ \A ip \in Hops : arp_clock[ip] = 25000

\* C19: every call keeps, for each datagram, the number of its deferred
\* entries plus the number of its data frames ever enqueued equal to the
\* number of times it was passed to send; and an entry leaves the deferred
\* queue only in a call after which its next hop is cached and its data frame,
\* addressed to the cached hardware address, is the newest outgoing frame.
Deferred(q, d) == Cardinality({i \in DOMAIN q : q[i][2] = d})

IsDataOf(f, d) ==
  f.type = "IPv4" /\ f.src = OwnMac /\ SerializeDgram(d) = f.payload

Framed(q, d) == Cardinality({i \in DOMAIN q : IsDataOf(q[i], d)})

C19_NoLossNoDuplication ==
  [][calls' = calls + 1 =>
       /\ \A d \in Dgrams :
            Deferred(dgram_table', d) + Framed(outgoing_frames', d)
              + (IF last'.op = "maybe_send" /\ last'.polled /\ IsDataOf(last'.frame, d)
                 THEN 1 ELSE 0)
            = Deferred(dgram_table, d) + Framed(outgoing_frames, d)
              + (IF last'.op = "send" /\ last'.dgram = d THEN 1 ELSE 0)
       /\ \/ /\ Len(dgram_table') >= Len(dgram_table)
             /\ SubSeq(dgram_table', 1, Len(dgram_table)) = dgram_table
          \/ \E i \in DOMAIN dgram_table :
               /\ dgram_table' = RemoveAt(dgram_table, i)
               /\ dgram_table[i][1] \in DOMAIN arp_table'
               /\ IsDataFrame(outgoing_frames'[Len(outgoing_frames')],
                              arp_table'[dgram_table[i][1]], dgram_table[i][2])]_vars

\* C20: every frame on the outgoing queue carries the own hardware address as
\* source and is an IPv4 data frame to a learned hardware address, a broadcast
\* ARP request or a unicast ARP reply.
IsOutFrame(f) ==
  \/ \E mac \in Macs, d \in Dgrams : IsDataFrame(f, mac, d)
  \/ \E ip \in Hops : IsArpRequest(f, ip)
  \/ \E mac \in Macs, ip \in Hops : IsArpReply(f, mac, ip)

C20_NoUnfilledFrame ==
  \A i \in DOMAIN outgoing_frames : IsOutFrame(outgoing_frames[i])

====
